---- MODULE Spec2Model ----
(***************************************************************************)
(* Model of monitorWazeStateData.py: the change-gated recursive crawl.     *)
(*                                                                         *)
(* Strings the program inspects character by character (locator paths,    *)
(* hrefs) are sequences of one-character strings.  A timestamp text is a   *)
(* record of what dateutil reads out of it; an Instant is the pair         *)
(* (whole seconds, fractional part).                                       *)
(***************************************************************************)
EXTENDS Integers, Sequences, FiniteSets, TLC

\* ------------------------------------------------------------------ bounds

\* whole seconds of the instants the model draws: 0..MaxSec
MaxSec == 2

\* fractional parts of the instants the model draws: 0..MaxMicro (0 = none)
MaxMicro == 1

\* number of times the program is started, one after the other
MaxRuns == 2

\* deepest processContent nesting the model follows (cyclic sites recurse forever)
MaxDepth == 3

\* ------------------------------------------------------------ text helpers

startswith(s, p) ==
    /\ Len(s) >= Len(p)
    /\ SubSeq(s, 1, Len(p)) = p

endswith(s, p) ==
    /\ Len(s) >= Len(p)
    /\ SubSeq(s, Len(s) - Len(p) + 1, Len(s)) = p

\* str.split(sep) for a one-character separator.  (The rest of the text is
\* bound by a set of one element, so that it is evaluated once.)
RECURSIVE split(_, _)
split(s, sep) ==
    IF \A i \in 1..Len(s) : s[i] # sep
    THEN <<s>>
    ELSE LET i == CHOOSE k \in 1..Len(s) :
                      s[k] = sep /\ \A j \in 1..(k - 1) : s[j] # sep
         IN  CHOOSE tokens \in
                 {<<SubSeq(s, 1, i - 1)>> \o split(rest, sep) :
                      rest \in {SubSeq(s, i + 1, Len(s))}} : TRUE

\* sep.join(parts)
RECURSIVE join(_, _)
join(parts, sep) ==
    IF Len(parts) = 0 THEN <<>>
    ELSE IF Len(parts) = 1 THEN parts[1]
    ELSE parts[1] \o <<sep>> \o join(Tail(parts), sep)

RECURSIVE SelectNonEmpty(_)
SelectNonEmpty(parts) ==
    IF Len(parts) = 0 THEN <<>>
    ELSE (IF Head(parts) = <<>> THEN <<>> ELSE <<Head(parts)>>)
         \o SelectNonEmpty(Tail(parts))

\* ------------------------------------------------------------- timestamps

\* Python's None where an Instant is expected
None == [s |-> -1, u |-> -1]

Instants == [s : 0..MaxSec, u : 0..MaxMicro]

\* a <= b on Instants (datetime comparison: seconds, then the fraction)
InstantLeq(a, b) == a.s < b.s \/ (a.s = b.s /\ a.u <= b.u)

\* max() of a non-empty set of Instants
MaxInstant(S) == CHOOSE m \in S : \A x \in S : InstantLeq(x, m)

\* What a timestamp text holds: nothing dateutil can read ("junk"), or a date
\* and time with whole seconds s, fractional part u and possibly a time zone
\* designator (tz), such as the trailing " UTC".
JunkText == [kind |-> "junk", s |-> 0, u |-> 0, tz |-> FALSE]

TimestampText(s, u, tz) == [kind |-> "ts", s |-> s, u |-> u, tz |-> tz]

\* parseTimestamp raises ValueError: dateutil cannot parse the text, or the
\* parsed datetime is already time-zone aware and pytz's localize refuses it
parseTimestampRaises(text) ==
    \/ text.kind # "ts"
    \/ text.tz

\* parseTimestamp's return value when it does not raise: the naive datetime
\* labelled UTC
parseTimestamp(text) == [s |-> text.s, u |-> text.u]

\* strftime('%Y-%m-%d %H:%M:%S UTC'): whole seconds only, then " UTC"
prettyPrintTimestamp(timestamp) == TimestampText(timestamp.s, 0, TRUE)

\* strftime('%Y-%m-%d %H:%M:%S.timestamp'): the name of the archive file
TimestampFileName(timestamp) ==
    [stem |-> TimestampText(timestamp.s, 0, FALSE), ext |-> TRUE]

\* --------------------------------------------------------- the update gate

\* a gate that lets a run through although the observed instant is not newer
needToDoRunNotNewer(previousDataTimestamp, currTimestamp) ==
    IF previousDataTimestamp = None THEN "True"
    ELSE IF InstantLeq(currTimestamp, previousDataTimestamp) THEN "True"
    ELSE "NameError"

\* "True", "False", or "NameError": the last branch formats its log message
\* with the undefined name currentTimestamp
_needToDoRun(previousDataTimestamp, currTimestamp) ==
    IF previousDataTimestamp = None THEN "True"
    ELSE IF InstantLeq(currTimestamp, previousDataTimestamp) THEN "False"
    ELSE "NameError"

\* ------------------------------------------------------ the timestamp store

\* A file of the archive directory is [stem, ext]: stem is what is left of
\* its name without its last len('.timestamp') characters, ext whether the
\* name ends with '.timestamp'.

\* getPreviousDataTimestamp raises: parseTimestamp is applied to every file's
\* stem before the file is judged, and its ValueError is not caught
getPreviousDataTimestampRaises(files) ==
    \E f \in files : parseTimestampRaises(f.stem)

dataTimestamps(files) ==
    { parseTimestamp(f.stem) : f \in { g \in files : g.ext } }

getPreviousDataTimestamp(files) ==
    IF dataTimestamps(files) # {}
    THEN MaxInstant(dataTimestamps(files))
    ELSE None

\* ---------------------------------------------------------------- locators

\* A locator is [host, path]: the URL "http://" + host + path, path a
\* sequence of characters that starts with "/".  An anchor is [href]: the
\* text parseHref's pattern captures, <<>> when the pattern does not match.

CSV == <<".", "c", "s", "v">>

SL_CSV == <<"-", "s", "l", ".", "c", "s", "v">>

HTTP == <<"h", "t", "t", "p", ":", "/", "/">>

HTTPS == <<"h", "t", "t", "p", "s", ":", "/", "/">>

MANAGEDAREAS == <<"m", "a", "n", "a", "g", "e", "d", "a", "r", "e", "a", "s">>

\* 'http://db.slickbox.net/states/', the root the managed-area scanner knows
KnownRoot ==
    [host |-> "db.slickbox.net",
     path |-> <<"/", "s", "t", "a", "t", "e", "s", "/">>]

\* parseHref calls sys.exit() when the anchor holds no href="..."
parseHrefExits(htmlLink) == htmlLink.href = <<>>

parseHref(htmlLink) == htmlLink.href

\* delete to the last slash (the slash stays)
removeLastToken(url) ==
    LET i == CHOOSE k \in 1..Len(url.path) :
                 /\ url.path[k] = "/"
                 /\ \A j \in (k + 1)..Len(url.path) : url.path[j] # "/"
    IN  [host |-> url.host, path |-> SubSeq(url.path, 1, i)]

mergeParentAndRelativeUrl(parentUrl, relativeUrl) ==
    IF endswith(parentUrl.path, <<"/">>)
    THEN [host |-> parentUrl.host, path |-> parentUrl.path \o relativeUrl]
    ELSE [host |-> parentUrl.host,
          path |-> removeLastToken(parentUrl).path \o relativeUrl]

\* urllib.parse.quote, safe='/': the characters of the model's hrefs that
\* are not letters, digits, '_', '.', '-' or '/' become %XX
quoteChar(c) ==
    CASE c = " " -> <<"%", "2", "0">>
      [] c = ":" -> <<"%", "3", "A">>
      [] c = "?" -> <<"%", "3", "F">>
      [] c = "#" -> <<"%", "2", "3">>
      [] c = "%" -> <<"%", "2", "5">>
      [] OTHER   -> <<c>>

RECURSIVE quote(_)
quote(s) ==
    IF Len(s) = 0 THEN <<>> ELSE quoteChar(Head(s)) \o quote(Tail(s))

\* urljoin's loop over the segments: '..' pops, '.' is dropped
RECURSIVE resolveSegments(_, _)
resolveSegments(segments, resolved) ==
    IF Len(segments) = 0 THEN resolved
    ELSE LET seg == Head(segments)
         IN  IF seg = <<".", ".">>
             THEN resolveSegments(Tail(segments),
                      IF Len(resolved) = 0 THEN resolved
                      ELSE SubSeq(resolved, 1, Len(resolved) - 1))
             ELSE IF seg = <<".">>
             THEN resolveSegments(Tail(segments), resolved)
             ELSE resolveSegments(Tail(segments), Append(resolved, seg))

\* urljoin's result from the resolved segments: they are joined with '/',
\* and the path is absolute
urlunsplit(base, resolved) ==
    LET joined == join(resolved, "/")
        path   == IF joined = <<>> THEN <<"/">> ELSE joined
    IN  [host |-> base.host,
         path |-> IF startswith(path, <<"/">>) THEN path ELSE <<"/">> \o path]

\* urljoin's resolution of '.' and '..': a path that ends in one of them
\* ends in a slash
removeDotSegments(segments) ==
    LET last == segments[Len(segments)]
    IN  resolveSegments(segments, <<>>)
        \o (IF last = <<".">> \/ last = <<".", ".">> THEN <<(<<>>)>> ELSE <<>>)

\* urljoin's filter: of the segments between the first and the last, the
\* empty ones are dropped, unless the url is an absolute path
filterSegments(raw, url) ==
    IF startswith(url, <<"/">>) \/ Len(raw) < 3
    THEN raw
    ELSE <<raw[1]>> \o SelectNonEmpty(SubSeq(raw, 2, Len(raw) - 1))
                   \o <<raw[Len(raw)]>>

\* urllib.parse.urljoin(base, url) for a url that has, after quote(), no
\* scheme, query or fragment, and that does not start with "//".  (Each
\* stage is bound by a set of one element, so that it is evaluated once.)
urljoin(base, url) ==
    LET bparts    == split(base.path, "/")
        baseParts == IF bparts[Len(bparts)] # <<>>
                     THEN SubSeq(bparts, 1, Len(bparts) - 1)
                     ELSE bparts
    IN  CHOOSE joined \in
            {urlunsplit(base, resolved) :
                 resolved \in
                     {removeDotSegments(segments) :
                          segments \in
                              {filterSegments(raw, url) :
                                   raw \in {IF startswith(url, <<"/">>)
                                            THEN split(url, "/")
                                            ELSE baseParts \o split(url, "/")}}}}
            : TRUE

\* the locator processContent descends into for a link (lines 213-219):
\* urljoin of the page's locator, trimmed to its last slash, and the quoted
\* href
childUrl(htmlUrl, htmlLink) ==
    CHOOSE newUrl \in
        {urljoin(trimmed, quoted) :
             trimmed \in {IF endswith(htmlUrl.path, <<"/">>) THEN htmlUrl
                          ELSE removeLastToken(htmlUrl)},
             quoted \in {quote(parseHref(htmlLink))}} : TRUE

\* getHtmlLinks calls parseHref on every anchor of the page
getHtmlLinksExits(anchors) ==
    \E i \in 1..Len(anchors) : parseHrefExits(anchors[i])

\* a getHtmlLinks that knows of http:// only
getHtmlLinksHttpOnly(anchors) ==
    SelectSeq(anchors, LAMBDA a : ~startswith(parseHref(a), HTTP))

\* only the anchors whose href starts with neither http:// nor https://
getHtmlLinks(anchors) ==
    SelectSeq(anchors,
              LAMBDA a : /\ ~startswith(parseHref(a), HTTP)
                         /\ ~startswith(parseHref(a), HTTPS))

\* --------------------------------------------------------------- the sites

\* What the web server holds while the program runs: the root locator given
\* on the command line, the anchors of every page that exists, and the text
\* between "Generated: " and " UTC" on the root page (kind "none": the root
\* page has no such marker).

NoMarker == [kind |-> "none", s |-> 0, u |-> 0, tz |-> FALSE]

Markers ==
    {NoMarker, JunkText}
    \cup { TimestampText(s, u, tz) :
               s \in 0..MaxSec, u \in 0..MaxMicro, tz \in BOOLEAN }

Loc(path) == [host |-> "db.slickbox.net", path |-> path]

A(href) == [href |-> href]

TX_SL == <<"t", "x", "-", "s", "l", ".", "c", "s", "v">>

NY_SL == <<"n", " ", "y", "-", "s", "l", ".", "c", "s", "v">>

StatesA == KnownRoot.path \o <<"a", "/">>

StatesB == KnownRoot.path \o <<"b", ".", "h", "t", "m", "l">>

StatesC == KnownRoot.path \o <<"c">>

\* the root page lists the managed areas and one state
SiteSingle ==
    KnownRoot :> <<A(MANAGEDAREAS \o CSV), A(HTTPS \o <<"x">>), A(TX_SL)>>

\* a tree: a directory page, a page whose locator has no trailing slash, a
\* page that two pages link to
SiteTree ==
    (KnownRoot :> <<A(<<"a", "/">>), A(TX_SL), A(HTTP \o <<"x">>),
                    A(<<"b", ".", "h", "t", "m", "l">>)>>)
    @@ (Loc(StatesA) :> <<A(NY_SL), A(MANAGEDAREAS \o CSV),
                          A(<<".", ".", "/", "c">>)>>)
    @@ (Loc(StatesB) :> <<A(<<"c">>)>>)
    @@ (Loc(StatesC) :> << >>)

\* a child page holds an anchor without href="..."
SiteBadAnchor ==
    (KnownRoot :> <<A(TX_SL), A(<<"a", "/">>), A(<<"c">>)>>)
    @@ (Loc(StatesA) :> <<A(<<>>)>>)
    @@ (Loc(StatesC) :> << >>)

\* a child page links back to the root
SiteCycle ==
    (KnownRoot :> <<A(<<"a", "/">>)>>)
    @@ (Loc(StatesA) :> <<A(<<".", ".", "/">>)>>)

SitePages == {SiteSingle, SiteTree, SiteBadAnchor, SiteCycle}

Sites == [rootUrl : {KnownRoot}, pages : SitePages, marker : Markers]

\* the files the archive directory may hold when the program is first run:
\* names the program wrote before, a name no parser reads, a name with
\* another extension
ArchiveFiles ==
    { TimestampFileName([s |-> s, u |-> 0]) : s \in 0..MaxSec }
    \cup {[stem |-> JunkText, ext |-> TRUE],
          [stem |-> TimestampText(MaxSec, 0, FALSE), ext |-> FALSE]}

InitArchives == { F \in SUBSET ArchiveFiles : Cardinality(F) <= 2 }

\* ------------------------------------------------------------------- state

VARIABLES
    site,                   \* what the web server holds
    archive,                \* the files of ./timestamp_archive
    archive0,               \* the files it held when the current run started
    outDirs,                \* the output directories that exist
    run,                    \* number of the current start of the program
    pc,                     \* where main() is: "main27", ..., "done", "exit", "crash"
    exitCause,              \* why the run ended early ("" while it has not)
    previousDataTimestamp,  \* main's local of that name
    indexHtmlContent,       \* main's local of that name
    currTimestamp,          \* main's local of that name
    gate,                   \* what _needToDoRun did in this run ("" before)
    stack,                  \* the processContent calls in progress, innermost last
    events,                 \* what this run did to the world, in order
    written                 \* the instants given to writeTimestampToArchive so far

vars == <<site, archive, archive0, outDirs, run, pc, exitCause, previousDataTimestamp,
          indexHtmlContent, currTimestamp, gate, stack, events, written>>

locals == <<previousDataTimestamp, indexHtmlContent, currTimestamp, gate>>

\* An event is a request of a page ("fetch"), an evaluation of the gate
\* ("gate"), a call of a link scanner ("scan"), a call of the File Processor
\* ("call") or the write of the archive file ("write").
FetchEvent(url, linkDepth, root, ok) ==
    [type |-> "fetch", url |-> url, linkDepth |-> linkDepth, root |-> root,
     ok |-> ok]

GateEvent(result) == [type |-> "gate", result |-> result]

ScanEvent(scanner, linkContent, parentUrl, parentLinkDepth, ts, found) ==
    [type |-> "scan", scanner |-> scanner, linkContent |-> linkContent,
     parentUrl |-> parentUrl, parentLinkDepth |-> parentLinkDepth,
     currTimestamp |-> ts, found |-> found]

CallEvent(mergedUrl, outputDir, existed, status) ==
    [type |-> "call", mergedUrl |-> mergedUrl, outputDir |-> outputDir,
     existed |-> existed, status |-> status]

WriteEvent(file) == [type |-> "write", file |-> file]

NoContent == [marker |-> NoMarker, anchors |-> << >>]

stateOutputDir == "stateOutputDir"

Init ==
    /\ site \in Sites
    /\ archive \in InitArchives
    /\ archive0 = archive
    /\ outDirs = {}
    /\ run = 1
    /\ pc = "main27"
    /\ exitCause = ""
    /\ previousDataTimestamp = None
    /\ indexHtmlContent = NoContent
    /\ currTimestamp = None
    /\ gate = ""
    /\ stack = << >>
    /\ events = << >>
    /\ written = << >>

\* the content the server returns for a locator that exists
PageOf(url) ==
    [marker  |-> IF url = site.rootUrl THEN site.marker ELSE NoMarker,
     anchors |-> site.pages[url]]

\* the ways a request for url can end: a page that does not exist only fails
Reachable(url) == IF url \in DOMAIN site.pages THEN BOOLEAN ELSE {FALSE}

\* How a call ends: it returns value ("return"), calls sys.exit() ("exit")
\* or raises an exception nothing catches ("crash").
Return(value) == [how |-> "return", value |-> value]

\* a getHtmlContent that logs a failed request and goes on with no content
getHtmlContentGoesOn(rootUrl, ok) ==
    IF ok THEN Return(PageOf(rootUrl)) ELSE Return(NoContent)

\* getHtmlContent(rootUrl) when the request succeeds (ok) or fails: every
\* except clause logs and calls sys.exit()
getHtmlContent(rootUrl, ok) ==
    IF ok THEN Return(PageOf(rootUrl))
    ELSE [how |-> "exit", value |-> NoContent]

\* a parseDataTimestampFromIndexPage that falls back on the earliest instant
\* when it finds no timestamp
parseDataTimestampFallsBack(htmlContent) ==
    IF htmlContent.marker.kind = "none" \/ parseTimestampRaises(htmlContent.marker)
    THEN Return([s |-> 0, u |-> 0])
    ELSE Return(parseTimestamp(htmlContent.marker))

parseDataTimestampFromIndexPage(htmlContent) ==
    IF htmlContent.marker.kind = "none"
    THEN [how |-> "exit", value |-> None]
    ELSE IF parseTimestampRaises(htmlContent.marker)
    THEN [how |-> "crash", value |-> None]
    ELSE Return(parseTimestamp(htmlContent.marker))

\* a main that does not stop on the gate's False
afterGateGoesOn(needToDoRun) ==
    IF needToDoRun = "NameError" THEN "crash" ELSE "crawl"

\* lines 33-37 of main: where the run goes with the gate's answer
afterGate(needToDoRun) ==
    IF needToDoRun = "NameError" THEN "crash"
    ELSE IF needToDoRun = "False" THEN "exit"
    ELSE "crawl"

\* a detector that looks at the link only
areaManagerAnywhere(linkContent, parentUrl, parentLinkDepth) ==
    /\ Len(linkContent.href) = Len(MANAGEDAREAS) + 4
    /\ startswith(linkContent.href, MANAGEDAREAS)
    /\ endswith(linkContent.href, <<"c", "s", "v">>)

\* linkScanner_getAreaManagerPolygons: whether it reports the managed-area
\* CSV.  Its pattern wants href="managedareas" + any one character + "csv".
linkScanner_getAreaManagerPolygons(linkContent, parentUrl, parentLinkDepth) ==
    /\ Len(linkContent.href) = Len(MANAGEDAREAS) + 4
    /\ startswith(linkContent.href, MANAGEDAREAS)
    /\ endswith(linkContent.href, <<"c", "s", "v">>)
    /\ parentUrl = KnownRoot
    /\ parentLinkDepth = 1

\* lines 281-283: the last token of the merged URL without '-sl.csv'
stateNameOf(mergedUrl) ==
    LET urlTokens == split(mergedUrl.path, "/")
        stateName == urlTokens[Len(urlTokens)]
    IN  SubSeq(stateName, 1, Len(stateName) - Len(SL_CSV))

\* lines 286-292: 'YYYYmmdd_HHMMSS' of the instant, which has whole seconds
\* only, as prettyPrintTimestamp's text has
timestampDirNameOf(ts) == prettyPrintTimestamp(ts).s

\* a speed-limit scanner that takes every '.csv' link for a speed-limit CSV
linkScannerAnyCsv(linkContent, parentUrl, outputRoot, ts) ==
    LET relativeLink == parseHref(linkContent)
        mergedUrl    == mergeParentAndRelativeUrl(parentUrl, relativeLink)
    IN  IF ~endswith(relativeLink, CSV)
        THEN [invoke |-> FALSE, mergedUrl |-> mergedUrl, outputDir |-> << >>]
        ELSE [invoke    |-> TRUE,
              mergedUrl |-> mergedUrl,
              outputDir |-> <<outputRoot, stateNameOf(mergedUrl),
                              timestampDirNameOf(ts), "speed_limits">>]

\* linkScanner_getMissingStateSpeedLimits up to line 294: whether the link
\* is a speed-limit CSV, and the two arguments the File Processor then gets
linkScanner_getMissingStateSpeedLimits(linkContent, parentUrl, outputRoot, ts) ==
    LET relativeLink == parseHref(linkContent)
        mergedUrl    == mergeParentAndRelativeUrl(parentUrl, relativeLink)
    IN  IF ~endswith(relativeLink, SL_CSV)
        THEN [invoke |-> FALSE, mergedUrl |-> mergedUrl, outputDir |-> << >>]
        ELSE [invoke    |-> TRUE,
              mergedUrl |-> mergedUrl,
              outputDir |-> <<outputRoot, stateNameOf(mergedUrl),
                              timestampDirNameOf(ts), "speed_limits">>]

\* subprocess.check_call: a non-zero exit status raises CalledProcessError
subprocessCheckCall(status) ==
    IF status = 0 THEN Return(status) ELSE [how |-> "crash", value |-> status]

\* line 305, subprocess.call: the exit status comes back and nothing is raised
subprocessCall(status) == Return(status)

\* a test for the speed-limit suffix where the '.csv' suffix is meant
notRecursingSlOnly(newUrl) == endswith(newUrl.path, SL_CSV)

\* line 221: a locator that ends in '.csv' is not fetched
notRecursing(newUrl) == endswith(newUrl.path, CSV)

\* a processContent that never dives into child links
firstChildLinkNever(recurse, n) == n + 1

\* lines 211-212: the number of the first link the recursion loop takes, of
\* the page's n links; past the last one when recurse is not True
firstChildLink(recurse, n) == IF recurse THEN 1 ELSE n + 1

\* a recursive call that keeps its caller's link depth
childLinkDepthSame(linkDepth) == linkDepth

\* line 227: the link depth given to the recursive call
childLinkDepth(linkDepth) == linkDepth + 1

\* a recursive call that tells its callee not to recurse
childRecurseOff(recurse) == FALSE

\* line 228: the recurse flag given to the recursive call
childRecurse(recurse) == recurse

\* the run ends here: sys.exit() ("exit") or an uncaught exception ("crash")
Halt(how, cause) ==
    /\ pc' = how
    /\ exitCause' = cause

\* a processContent call: its parameters, the links it extracted, and where
\* it is ("enter": before line 203, "scan": in the loop of line 205,
\* "recurse": in the loop of line 212, at link number i)
Frame(htmlContent, htmlUrl, linkDepth, ts, recurse) ==
    [htmlContent    |-> htmlContent,
     htmlUrl        |-> htmlUrl,
     linkDepth      |-> linkDepth,
     stateOutputDir |-> stateOutputDir,
     currTimestamp  |-> ts,
     recurse        |-> recurse,
     htmlLinks      |-> << >>,
     phase          |-> "enter",
     i              |-> 1]

Top == stack[Len(stack)]

SetTop(f) == [stack EXCEPT ![Len(stack)] = f]

\* ------------------------------------------------------------------ main()

\* line 27: previousDataTimestamp = getPreviousDataTimestamp()
GetPrevious ==
    /\ pc = "main27"
    /\ IF getPreviousDataTimestampRaises(archive)
       THEN /\ Halt("crash", "ValueError in getPreviousDataTimestamp")
            /\ UNCHANGED previousDataTimestamp
       ELSE /\ previousDataTimestamp' = getPreviousDataTimestamp(archive)
            /\ pc' = "main28"
            /\ UNCHANGED exitCause
    /\ UNCHANGED <<site, archive, archive0, outDirs, run, indexHtmlContent, currTimestamp,
                   gate, stack, events, written>>

\* line 28: indexHtmlContent = getHtmlContent(args.rootUrl)
FetchRoot ==
    /\ pc = "main28"
    /\ \E ok \in Reachable(site.rootUrl) :
         LET r == getHtmlContent(site.rootUrl, ok)
         IN  /\ events' = Append(events, FetchEvent(site.rootUrl, 1, TRUE, ok))
             /\ IF r.how = "return"
                THEN /\ indexHtmlContent' = r.value
                     /\ pc' = "main31"
                     /\ UNCHANGED exitCause
                ELSE /\ Halt("exit", "root fetch failed")
                     /\ UNCHANGED indexHtmlContent
    /\ UNCHANGED <<site, archive, archive0, outDirs, run, previousDataTimestamp,
                   currTimestamp, gate, stack, written>>

\* line 31: currTimestamp = parseDataTimestampFromIndexPage(indexHtmlContent)
ParseDataTimestamp ==
    /\ pc = "main31"
    /\ LET r == parseDataTimestampFromIndexPage(indexHtmlContent)
       IN  IF r.how = "return"
           THEN /\ currTimestamp' = r.value
                /\ pc' = "main33"
                /\ UNCHANGED exitCause
           ELSE /\ Halt(r.how, IF r.how = "exit" THEN "no Generated marker"
                               ELSE "ValueError in parseTimestamp")
                /\ UNCHANGED currTimestamp
    /\ UNCHANGED <<site, archive, archive0, outDirs, run, previousDataTimestamp,
                   indexHtmlContent, gate, stack, events, written>>

\* lines 33-37: the gate, then the call of processContent at link depth 1
Gate ==
    /\ pc = "main33"
    /\ gate' = _needToDoRun(previousDataTimestamp, currTimestamp)
    /\ events' = Append(events, GateEvent(gate'))
    /\ LET to == afterGate(gate')
       IN  IF to = "crawl"
           THEN /\ stack' = <<Frame(indexHtmlContent, site.rootUrl, 1,
                                    currTimestamp, TRUE)>>
                /\ pc' = "crawl"
                /\ UNCHANGED exitCause
           ELSE /\ Halt(to, IF to = "exit" THEN "no new data"
                            ELSE "NameError in _needToDoRun")
                /\ UNCHANGED stack
    /\ UNCHANGED <<site, archive, archive0, outDirs, run, previousDataTimestamp,
                   indexHtmlContent, currTimestamp, written>>

\* --------------------------------------------------------- processContent()

\* lines 198-203: no content scanner is defined; getHtmlLinks
EnterPage ==
    /\ pc = "crawl"
    /\ Top.phase = "enter"
    /\ IF getHtmlLinksExits(Top.htmlContent.anchors)
       THEN /\ Halt("exit", "anchor without href")
            /\ UNCHANGED stack
       ELSE /\ stack' = SetTop([Top EXCEPT
                            !.htmlLinks = getHtmlLinks(Top.htmlContent.anchors),
                            !.phase = "scan"])
            /\ UNCHANGED <<pc, exitCause>>
    /\ UNCHANGED <<site, archive, archive0, outDirs, run, locals, events, written>>

\* lines 205-208, one link: the two link scanners, in the order of their
\* definition; the second one may call the File Processor, whose exit
\* status is any
ScanLink ==
    /\ pc = "crawl"
    /\ Top.phase = "scan"
    /\ Top.i <= Len(Top.htmlLinks)
    /\ LET link  == Top.htmlLinks[Top.i]
           found == linkScanner_getAreaManagerPolygons(link, Top.htmlUrl,
                                                       Top.linkDepth)
           sl    == linkScanner_getMissingStateSpeedLimits(link, Top.htmlUrl,
                        Top.stateOutputDir, Top.currTimestamp)
           scans == <<ScanEvent("linkScanner_getAreaManagerPolygons", link,
                                Top.htmlUrl, Top.linkDepth, Top.currTimestamp,
                                found),
                      ScanEvent("linkScanner_getMissingStateSpeedLimits", link,
                                Top.htmlUrl, Top.linkDepth, Top.currTimestamp,
                                sl.invoke)>>
       IN  IF ~sl.invoke
           THEN /\ events' = events \o scans
                /\ stack' = SetTop([Top EXCEPT !.i = Top.i + 1])
                /\ UNCHANGED <<pc, exitCause, outDirs>>
           ELSE \E status \in {0, 1} :
                  LET r == subprocessCall(status)
                  IN  /\ events' = events \o scans
                            \o <<CallEvent(sl.mergedUrl, sl.outputDir,
                                           sl.outputDir \in outDirs, status)>>
                      /\ outDirs' = outDirs \cup {sl.outputDir}
                      /\ IF r.how = "return"
                         THEN /\ stack' = SetTop([Top EXCEPT !.i = Top.i + 1])
                              /\ UNCHANGED <<pc, exitCause>>
                         ELSE /\ Halt(r.how, "File Processor failed")
                              /\ UNCHANGED stack
    /\ UNCHANGED <<site, archive, archive0, run, locals, written>>

\* line 211: every link is scanned; should we now dive into child links?
StartRecursion ==
    /\ pc = "crawl"
    /\ Top.phase = "scan"
    /\ Top.i > Len(Top.htmlLinks)
    /\ stack' = SetTop([Top EXCEPT
                    !.phase = "recurse",
                    !.i = firstChildLink(Top.recurse, Len(Top.htmlLinks))])
    /\ UNCHANGED <<site, archive, archive0, outDirs, run, pc, exitCause, locals, events,
                   written>>

\* lines 212-228, one link: a '.csv' locator is skipped, any other is
\* fetched and processed one level deeper
RecurseLink ==
    /\ pc = "crawl"
    /\ Top.phase = "recurse"
    /\ Top.i <= Len(Top.htmlLinks)
    /\ LET link    == Top.htmlLinks[Top.i]
           trimmed == IF endswith(Top.htmlUrl.path, <<"/">>) THEN Top.htmlUrl
                      ELSE removeLastToken(Top.htmlUrl)
           here    == [Top EXCEPT !.htmlUrl = trimmed, !.i = Top.i + 1]
       IN  \E newUrl \in {childUrl(Top.htmlUrl, link)} :
           IF notRecursing(newUrl)
           THEN /\ stack' = SetTop(here)
                /\ UNCHANGED <<pc, exitCause, events>>
           ELSE /\ Len(stack) < MaxDepth
                /\ \E ok \in Reachable(newUrl) :
                     LET r == getHtmlContent(newUrl, ok)
                     IN  /\ events' = Append(events,
                                FetchEvent(newUrl, childLinkDepth(Top.linkDepth),
                                           FALSE, ok))
                         /\ IF r.how = "return"
                            THEN /\ stack' = Append(SetTop(here),
                                        Frame(r.value, newUrl,
                                              childLinkDepth(Top.linkDepth),
                                              Top.currTimestamp,
                                              childRecurse(Top.recurse)))
                                 /\ UNCHANGED <<pc, exitCause>>
                            ELSE /\ Halt(r.how, "child fetch failed")
                                 /\ UNCHANGED stack
    /\ UNCHANGED <<site, archive, archive0, outDirs, run, locals, written>>

\* the call of processContent returns; the outermost one returns to line 40
ReturnFromPage ==
    /\ pc = "crawl"
    /\ Top.phase = "recurse"
    /\ Top.i > Len(Top.htmlLinks)
    /\ stack' = SubSeq(stack, 1, Len(stack) - 1)
    /\ pc' = IF Len(stack) = 1 THEN "main40" ELSE "crawl"
    /\ UNCHANGED <<site, archive, archive0, outDirs, run, exitCause, locals, events,
                   written>>

\* line 40: writeTimestampToArchive(currTimestamp) touches the file
WriteTimestamp ==
    /\ pc = "main40"
    /\ archive' = archive \cup {TimestampFileName(currTimestamp)}
    /\ events' = Append(events, WriteEvent(TimestampFileName(currTimestamp)))
    /\ written' = Append(written, currTimestamp)
    /\ pc' = "done"
    /\ UNCHANGED <<site, archive0, outDirs, run, exitCause, locals, stack>>

\* the program is started again, on the same site, with the archive and
\* the output directories the runs before left
NextRun ==
    /\ pc \in {"done", "exit", "crash"}
    /\ run < MaxRuns
    /\ run' = run + 1
    /\ pc' = "main27"
    /\ exitCause' = ""
    /\ previousDataTimestamp' = None
    /\ indexHtmlContent' = NoContent
    /\ currTimestamp' = None
    /\ gate' = ""
    /\ stack' = << >>
    /\ events' = << >>
    /\ archive0' = archive
    /\ UNCHANGED <<site, archive, outDirs, written>>

Next ==
    \/ GetPrevious
    \/ FetchRoot
    \/ ParseDataTimestamp
    \/ Gate
    \/ EnterPage
    \/ ScanLink
    \/ StartRecursion
    \/ RecurseLink
    \/ ReturnFromPage
    \/ WriteTimestamp
    \/ NextRun

Spec == Init /\ [][Next]_vars

\* the program is one thread that keeps running: a step that can be taken
\* is taken
FairSpec == Spec /\ WF_vars(Next)

\* ------------------------------------------------------------ the properties

EventsOf(type) == SelectSeq(events, LAMBDA e : e.type = type)

Has(type) == \E i \in 1..Len(events) : events[i].type = type

IsChildFetch(e) == e.type = "fetch" /\ ~e.root

IsRootFetch(e) == e.type = "fetch" /\ e.root

FailedChildFetch ==
    \E i \in 1..Len(events) : IsChildFetch(events[i]) /\ ~events[i].ok

\* a scanner has been called, a child page requested or the File Processor run
TraversalStarted ==
    \/ stack # << >>
    \/ \E i \in 1..Len(events) :
         events[i].type \in {"scan", "call"} \/ IsChildFetch(events[i])

FetchedUrls == [i \in 1..Len(EventsOf("fetch")) |-> EventsOf("fetch")[i].url]

IsPrefix(s, q) == Len(s) <= Len(q) /\ SubSeq(q, 1, Len(s)) = s

\* the links of the page at url, none when the page does not exist or has
\* an anchor without href
LinksAt(url) ==
    IF url \in DOMAIN site.pages /\ ~getHtmlLinksExits(site.pages[url])
    THEN getHtmlLinks(site.pages[url])
    ELSE << >>

\* The locators requested below the page at url (at link depth linkDepth)
\* from its link number i on when every request succeeds: depth first, in
\* document order, '.csv' locators left out, nothing below MaxDepth.
RECURSIVE PreOrder(_, _, _)
PreOrder(url, linkDepth, i) ==
    IF linkDepth >= MaxDepth \/ i > Len(LinksAt(url)) THEN << >>
    ELSE LET newUrl == childUrl(url, LinksAt(url)[i])
         IN  IF endswith(newUrl.path, CSV)
             THEN PreOrder(url, linkDepth, i + 1)
             ELSE <<newUrl>> \o PreOrder(newUrl, linkDepth + 1, 1)
                           \o PreOrder(url, linkDepth, i + 1)

ExpectedFetches == <<site.rootUrl>> \o PreOrder(site.rootUrl, 1, 1)

\* the valid entries of a store: '.timestamp' files whose stem parses
ValidInstants(files) ==
    { parseTimestamp(f.stem) :
          f \in { g \in files : g.ext /\ ~parseTimestampRaises(g.stem) } }

\* C1 (as claimed): whenever the gate has been evaluated on (previous,
\* current) it returned a boolean, true iff previous is absent or current >
\* previous, false iff previous is present and current <= previous.
C1_GateIsTotal ==
    gate # "" =>
        /\ gate \in {"True", "False"}
        /\ gate = "True" <=>
               \/ previousDataTimestamp = None
               \/ ~InstantLeq(currTimestamp, previousDataTimestamp)

\* C2: traversal (a scanner call, a child-page fetch, a File Processor call)
\* has started only if the store held no recorded instant when the run
\* started or the instant of the root page is strictly greater than every
\* recorded instant.
C2_TraversalOnlyWhenNewer ==
    TraversalStarted =>
        \/ dataTimestamps(archive0) = {}
        \/ \A t \in dataTimestamps(archive0) : ~InstantLeq(currTimestamp, t)

C2_Witness ==
    /\ Has("scan")
    /\ Has("call")
    /\ archive0 # {}

\* C3: the store gets its new entry only as the last thing of a run, after
\* the whole traversal; a run with a fatal error during traversal (a failed
\* child fetch, an anchor without href) writes nothing and leaves the store
\* as it was.
C3_WriteOnlyAfterTraversal ==
    /\ \A i \in 1..Len(events) :
         events[i].type = "write" =>
             /\ i = Len(events)
             /\ pc = "done"
             /\ stack = << >>
             /\ ~FailedChildFetch
             /\ FetchedUrls = ExpectedFetches
    /\ ~Has("write") => archive = archive0
    /\ (FailedChildFetch \/ exitCause = "anchor without href") =>
           /\ ~Has("write")
           /\ archive = archive0
           /\ pc = "exit"

C3_Witness ==
    /\ pc = "done"
    /\ Has("write")
    /\ Len(FetchedUrls) > 2
    /\ archive # archive0

\* C4 (as claimed): in a run started on the same site after a run has
\* recorded its instant, the gate returns false and there is no traversal
\* and no new store entry.
C4_RerunIsGatedOff ==
    (written # << >> /\ ~Has("write") /\ gate # "") =>
        /\ gate = "False"
        /\ ~TraversalStarted
        /\ archive = archive0

\* C5 (as claimed): after a run that completed with the root-page instant T,
\* the high-water mark read from the store is T.
C5_ReadBackEqualsWritten ==
    (pc = "done" /\ Has("write")) =>
        /\ ~getPreviousDataTimestampRaises(archive)
        /\ getPreviousDataTimestamp(archive) = currTimestamp

\* C6 (as claimed): with invalid or unparsable entries in the store,
\* getPreviousDataTimestamp returns the maximum of the valid entries (None
\* when there is none) and the run goes on to the root fetch.
C6_InvalidEntriesAreSkipped ==
    pc # "main27" =>
        /\ exitCause # "ValueError in getPreviousDataTimestamp"
        /\ previousDataTimestamp =
               IF ValidInstants(archive0) = {} THEN None
               ELSE MaxInstant(ValidInstants(archive0))

C8_ChildFetchFailureAborts ==
    /\ [](\A i \in 1..Len(events) :
            (IsChildFetch(events[i]) /\ ~events[i].ok) =>
                (i = Len(events) /\ pc = "exit"))
    /\ [][/\ run' = run => IsPrefix(events, events')
          /\ outDirs \subseteq outDirs']_vars

\* a child fetch failed after a File Processor call, with a sibling link
\* that leads to another page still unvisited
C8_Witness ==
    /\ exitCause = "child fetch failed"
    /\ Has("call")
    /\ \E j \in (Top.i + 1)..Len(Top.htmlLinks) :
         ~endswith(childUrl(Top.htmlUrl, Top.htmlLinks[j]).path, CSV)
    /\ \A i \in 1..Len(events) :
         events[i].type = "call" => events[i].outputDir \in outDirs

\* C9: no run ends on a File Processor call, whatever its exit status; the
\* pages requested are those the site's links alone determine, whatever the
\* exit statuses; a run that completes has requested them all and has then
\* recorded its instant.
C9_ProcessorFailureDoesNotAbort ==
    /\ pc \in {"exit", "crash"} =>
         (events = << >> \/ events[Len(events)].type # "call")
    /\ IsPrefix(FetchedUrls, ExpectedFetches)
    /\ pc = "done" =>
         /\ FetchedUrls = ExpectedFetches
         /\ events[Len(events)] = WriteEvent(TimestampFileName(currTimestamp))
         /\ TimestampFileName(currTimestamp) \in archive

\* a completed run in which a File Processor call failed and pages were
\* requested after it
C9_Witness ==
    /\ pc = "done"
    /\ \E i \in 1..Len(events) :
         /\ events[i].type = "call"
         /\ events[i].status # 0
         /\ \E j \in (i + 1)..Len(events) : IsChildFetch(events[j])
         /\ \E j \in (i + 1)..Len(events) : events[j].type = "scan"

\* C10: once the root page is there and main is past line 31, a page
\* without the Generated marker or with a timestamp text that does not
\* parse has ended the run: the gate was not evaluated, no scanner called,
\* no child page requested, nothing written to the store.
C10_BadMarkerAbortsBeforeGate ==
    (/\ pc \notin {"main27", "main28", "main31"}
     /\ \E i \in 1..Len(events) : IsRootFetch(events[i]) /\ events[i].ok
     /\ \/ indexHtmlContent.marker.kind = "none"
        \/ parseTimestampRaises(indexHtmlContent.marker)) =>
        /\ pc \in {"exit", "crash"}
        /\ Len(events) = 1
        /\ gate = ""
        /\ stack = << >>
        /\ archive = archive0

C10_Witness ==
    /\ exitCause = "no Generated marker"
    /\ indexHtmlContent.marker.kind = "none"
    /\ indexHtmlContent.anchors # << >>
    /\ run = MaxRuns

\* ------------------------------------- the steps of a traversal

SpeedLimitsScanner == "linkScanner_getMissingStateSpeedLimits"

AreaManagerScanner == "linkScanner_getAreaManagerPolygons"

ScanStep(scanner, linkContent, parentUrl, parentLinkDepth) ==
    [type |-> "scan", scanner |-> scanner, linkContent |-> linkContent,
     parentUrl |-> parentUrl, parentLinkDepth |-> parentLinkDepth]

FetchStep(url, linkDepth) ==
    [type |-> "fetch", url |-> url, linkDepth |-> linkDepth]

\* the links of the page at url, where pages are the pages of the site: none
\* when the page does not exist or has an anchor without href
LinksIn(pages, url) ==
    IF url \in DOMAIN pages /\ ~getHtmlLinksExits(pages[url])
    THEN getHtmlLinks(pages[url])
    ELSE << >>

\* the scanner calls of one visit of the page at url: for every link, in
\* document order, each link scanner once
RECURSIVE ScansOf(_, _, _, _)
ScansOf(pages, url, linkDepth, i) ==
    IF i > Len(LinksIn(pages, url)) THEN << >>
    ELSE <<ScanStep(AreaManagerScanner, LinksIn(pages, url)[i], url, linkDepth),
           ScanStep(SpeedLimitsScanner, LinksIn(pages, url)[i], url, linkDepth)>>
         \o ScansOf(pages, url, linkDepth, i + 1)

\* The scanner calls and child requests of a visit of the page at url, at
\* link depth linkDepth, when every request succeeds: the scans of the page,
\* then for each link that is no '.csv', in document order, its request and
\* the visit of its page before the next link; nothing below MaxDepth.
RECURSIVE VisitFrom(_, _, _, _)
VisitFrom(pages, url, linkDepth, i) ==
    IF linkDepth >= MaxDepth \/ i > Len(LinksIn(pages, url)) THEN << >>
    ELSE LET newUrl == childUrl(url, LinksIn(pages, url)[i])
         IN  IF endswith(newUrl.path, CSV)
             THEN VisitFrom(pages, url, linkDepth, i + 1)
             ELSE <<FetchStep(newUrl, linkDepth + 1)>>
                  \o ScansOf(pages, newUrl, linkDepth + 1, 1)
                  \o VisitFrom(pages, newUrl, linkDepth + 1, 1)
                  \o VisitFrom(pages, url, linkDepth, i + 1)

\* for each site of the model, the scanner calls and child requests of a
\* run from its root
ExpectedStepsOfSites ==
    {<<pages, ScansOf(pages, KnownRoot, 1, 1) \o VisitFrom(pages, KnownRoot, 1, 1)>> :
         pages \in SitePages}

ExpectedSteps == (CHOOSE e \in ExpectedStepsOfSites : e[1] = site.pages)[2]

\* the scanner calls and child requests of the run so far
RECURSIVE StepsOf(_)
StepsOf(es) ==
    IF es = << >> THEN << >>
    ELSE LET e == Head(es)
         IN  (IF e.type = "scan"
              THEN <<ScanStep(e.scanner, e.linkContent, e.parentUrl,
                              e.parentLinkDepth)>>
              ELSE IF IsChildFetch(e) THEN <<FetchStep(e.url, e.linkDepth)>>
              ELSE << >>)
             \o StepsOf(Tail(es))

IsSpeedLimitsScan(e) == e.type = "scan" /\ e.scanner = SpeedLimitsScanner

IsFetchStep(e) == e.type = "fetch"

\* ------------------------------------------------------------------ C11

\* the frames of the stack whose recursion loop is past link number j
PastLink(k, j) == stack[k].phase = "recurse" /\ j < stack[k].i

\* C11: no child page is ever requested at a locator that ends in '.csv',
\* and no processContent call runs on one; a link that resolves to such a
\* locator is passed over without a request and the loop goes on with the
\* next link.
C11_CsvNeverFetched ==
    /\ \A i \in 1..Len(events) :
         IsChildFetch(events[i]) => ~endswith(events[i].url.path, CSV)
    /\ \A k \in 2..Len(stack) : ~endswith(stack[k].htmlUrl.path, CSV)
    /\ IsPrefix(SelectSeq(StepsOf(events), IsFetchStep),
                SelectSeq(ExpectedSteps, IsFetchStep))

\* a '.csv' link was passed over and the link after it was fetched and
\* processed
C11_Witness ==
    \E k \in 1..Len(stack) : \E j \in 1..Len(stack[k].htmlLinks) - 1 :
      /\ PastLink(k, j + 1)
      /\ endswith(childUrl(stack[k].htmlUrl, stack[k].htmlLinks[j]).path, CSV)
      /\ \E i \in 1..Len(events) :
           /\ IsChildFetch(events[i])
           /\ events[i].url = childUrl(stack[k].htmlUrl, stack[k].htmlLinks[j + 1])

\* ------------------------------------------------------------------ C12

\* the state identifier of an href: its file name without '-sl.csv'
StateIdOf(href) ==
    LET tokens == split(href, "/")
        name   == tokens[Len(tokens)]
    IN  SubSeq(name, 1, Len(name) - Len(SL_CSV))

\* the call of the File Processor that a speed-limit link on the page at
\* parentUrl is to cause in this run
ProcessorCallFor(href, parentUrl) ==
    [mergedUrl |-> [host |-> parentUrl.host,
                    path |-> IF endswith(parentUrl.path, <<"/">>)
                             THEN parentUrl.path \o href
                             ELSE removeLastToken(parentUrl).path \o href],
     outputDir |-> <<stateOutputDir, StateIdOf(href), currTimestamp.s,
                     "speed_limits">>]

\* C12: a call of the speed-limit scanner on a link is followed at once by
\* exactly one call of the File Processor when the link's href ends in
\* '-sl.csv', and by none otherwise, and the File Processor is called
\* nowhere else; the call gets the link's locator below its page and the
\* directory <outputRoot>/<stateId>/<instant of the root page>/speed_limits,
\* the same instant for all calls of the run; a directory that exists
\* already does not keep the call from being made.
C12_ProcessorOncePerSpeedLimitLink ==
    /\ \A i \in 1..Len(events) :
         IsSpeedLimitsScan(events[i]) =>
           LET href == events[i].linkContent.href
           IN  IF endswith(href, SL_CSV)
               THEN /\ i < Len(events)
                    /\ events[i + 1].type = "call"
                    /\ events[i + 1].mergedUrl =
                         ProcessorCallFor(href, events[i].parentUrl).mergedUrl
                    /\ events[i + 1].outputDir =
                         ProcessorCallFor(href, events[i].parentUrl).outputDir
                    /\ events[i + 1].outputDir \in outDirs
               ELSE i < Len(events) => events[i + 1].type # "call"
    /\ \A i \in 1..Len(events) :
         events[i].type = "call" =>
           /\ i > 1
           /\ events[i - 1].type = "scan"
           /\ events[i - 1].scanner = SpeedLimitsScanner
    /\ IsPrefix(SelectSeq(StepsOf(events), IsSpeedLimitsScan),
                SelectSeq(ExpectedSteps, IsSpeedLimitsScan))
    /\ pc = "done" => SelectSeq(StepsOf(events), IsSpeedLimitsScan)
                       = SelectSeq(ExpectedSteps, IsSpeedLimitsScan)

\* the File Processor was called for a directory that existed already, and
\* a link that is no speed-limit CSV was scanned without a call
C12_Witness ==
    /\ \E i \in 1..Len(events) : events[i].type = "call" /\ events[i].existed
    /\ \E i \in 1..Len(events) :
         /\ events[i].type = "scan"
         /\ events[i].scanner = SpeedLimitsScanner
         /\ endswith(events[i].linkContent.href, CSV)
         /\ ~endswith(events[i].linkContent.href, SL_CSV)

\* ------------------------------------------------------------------ C13

\* C13: parsing, formatting for display and parsing again gives the same
\* instant: for the text parseTimestamp accepted on the index page, with
\* currTimestamp the instant it returned, parseTimestamp accepts
\* prettyPrintTimestamp(currTimestamp) and returns currTimestamp again.
C13_ParsePrettyParse ==
    currTimestamp # None =>
      /\ ~parseTimestampRaises(prettyPrintTimestamp(currTimestamp))
      /\ parseTimestamp(prettyPrintTimestamp(currTimestamp)) = currTimestamp

\* ------------------------------------------------------------------ C14

IsAbsolute(htmlLink) ==
    startswith(htmlLink.href, HTTP) \/ startswith(htmlLink.href, HTTPS)

\* the anchors that are not absolute, in document order
RECURSIVE RelativeAnchors(_)
RelativeAnchors(anchors) ==
    IF anchors = << >> THEN << >>
    ELSE (IF IsAbsolute(Head(anchors)) THEN << >> ELSE <<Head(anchors)>>)
         \o RelativeAnchors(Tail(anchors))

\* C14: the links getHtmlLinks extracted from a page are, in document
\* order, exactly its anchors whose href starts with neither http:// nor
\* https://; no link scanner is called on an anchor whose href starts with
\* one of them, and no child request is made for such an anchor.
C14_AbsoluteLinksAreDropped ==
    /\ \A k \in 1..Len(stack) :
         stack[k].phase # "enter" =>
           stack[k].htmlLinks = RelativeAnchors(stack[k].htmlContent.anchors)
    /\ \A i \in 1..Len(events) :
         events[i].type = "scan" => ~IsAbsolute(events[i].linkContent)
    /\ \A i \in 1..Len(events) :
         IsChildFetch(events[i]) =>
           \A url \in DOMAIN site.pages :
             \A j \in 1..Len(site.pages[url]) :
               (site.pages[url][j].href # << >> /\ IsAbsolute(site.pages[url][j]))
                 => events[i].url # childUrl(url, site.pages[url][j])

\* a page with an absolute anchor between relative ones has had its links
\* scanned and its child links followed
C14_Witness ==
    \E k \in 1..Len(stack) :
      LET anchors == stack[k].htmlContent.anchors
      IN  /\ stack[k].phase = "recurse"
          /\ stack[k].i > Len(stack[k].htmlLinks)
          /\ \E j \in 2..Len(anchors) - 1 :
               /\ IsAbsolute(anchors[j])
               /\ ~IsAbsolute(anchors[j - 1])
               /\ ~IsAbsolute(anchors[j + 1])

\* ------------------------------------------------------------------ C15

\* the pages that the links of the page at url lead to and that the crawl
\* goes into, where pages are the pages of the site
ChildPages(pages, url) ==
    IF getHtmlLinksExits(pages[url]) THEN {}
    ELSE {u \in DOMAIN pages :
            \E j \in 1..Len(getHtmlLinks(pages[url])) :
              /\ u = childUrl(url, getHtmlLinks(pages[url])[j])
              /\ ~endswith(u.path, CSV)}

RECURSIVE ChildPagesWithin(_, _, _)
ChildPagesWithin(pages, urls, n) ==
    IF n = 0 THEN urls
    ELSE ChildPagesWithin(pages,
                          urls \cup UNION {ChildPages(pages, u) : u \in urls},
                          n - 1)

\* the pages reached from the page at url by one link or more
PagesBelow(pages, url) ==
    ChildPagesWithin(pages, ChildPages(pages, url), Cardinality(DOMAIN pages))

\* the sites whose links lead from the root to a page that is below itself
CyclicPages ==
    {pages \in SitePages :
       \E u \in {KnownRoot} \cup PagesBelow(pages, KnownRoot) :
         u \in PagesBelow(pages, u)}

CyclicSite == site.pages \in CyclicPages

HasRefetch ==
    \E i, j \in 1..Len(FetchedUrls) : i < j /\ FetchedUrls[i] = FetchedUrls[j]

\* C15: nothing detects a cycle.  On a site whose pages link in a cycle, a
\* run never comes back from the traversal and never writes its instant; a
\* traversal deeper than the number of pages has requested a locator again;
\* and a traversal that has begun goes on descending, as deep as MaxDepth
\* lets it, unless a request fails.
C15_CycleNeverCompletes ==
    /\ [](CyclicSite =>
            /\ pc \notin {"main40", "done"}
            /\ ~Has("write")
            /\ Len(stack) > Cardinality(DOMAIN site.pages) => HasRefetch)
    /\ (CyclicSite /\ pc = "crawl")
         ~> (Len(stack) = MaxDepth \/ FailedChildFetch)

\* the traversal of a cyclic site is at the root page a second time, every
\* request having succeeded
C15_Witness ==
    /\ CyclicSite
    /\ ~FailedChildFetch
    /\ HasRefetch
    /\ Len(stack) > 2
    /\ Top.htmlUrl = site.rootUrl
    /\ Top.phase = "recurse"

\* ------------------------------------------------------------------ C16

IsAreaManagerScan(e) == e.type = "scan" /\ e.scanner = AreaManagerScanner

\* the scan loop of the page on top of the stack is through
ScansDone == pc = "crawl" /\ Top.phase = "scan" /\ Top.i > Len(Top.htmlLinks)

\* the events since the page on top of the stack was requested
EventsOfTopPage ==
    LET fetches == {i \in 1..Len(events) : events[i].type = "fetch"}
        last    == CHOOSE i \in fetches : \A j \in fetches : j <= i
    IN  SubSeq(events, last + 1, Len(events))

\* C16 as claimed: when the scan loop of a page is through, the managed-area
\* detector has been called exactly once for the page, with the page's whole
\* content, its locator and its depth, and before every link scanner call.
C16_DetectorOncePerPage ==
    ScansDone =>
      LET es    == EventsOfTopPage
          calls == {i \in 1..Len(es) : IsAreaManagerScan(es[i])}
      IN  /\ Cardinality(calls) = 1
          /\ \A i \in calls :
               /\ es[i].linkContent = Top.htmlContent
               /\ es[i].parentUrl = Top.htmlUrl
               /\ es[i].parentLinkDepth = Top.linkDepth
               /\ \A j \in 1..(i - 1) : es[j].type # "scan"

\* C16, amended: the managed-area detector is a link scanner.  When the scan
\* loop of a page is through, the detector has been called exactly once per
\* extracted link, in document order, with that link, the page's locator and
\* its depth, each time right before the speed-limit scanner is called on
\* the same link; and a call reports only when the locator is the known
\* root, the depth is 1 and the link's href is "managedareas", one
\* character, "csv".
C16_DetectorOncePerLink ==
    /\ ScansDone =>
         LET scans == SelectSeq(EventsOfTopPage, IsAreaManagerScan)
         IN  /\ Len(scans) = Len(Top.htmlLinks)
             /\ \A j \in 1..Len(scans) :
                  /\ scans[j].linkContent = Top.htmlLinks[j]
                  /\ scans[j].parentUrl = Top.htmlUrl
                  /\ scans[j].parentLinkDepth = Top.linkDepth
    /\ \A i \in 1..Len(events) :
         IsAreaManagerScan(events[i]) =>
           /\ i < Len(events)
           /\ IsSpeedLimitsScan(events[i + 1])
           /\ events[i + 1].linkContent = events[i].linkContent
           /\ events[i].found <=>
                /\ events[i].parentUrl = KnownRoot
                /\ events[i].parentLinkDepth = 1
                /\ Len(events[i].linkContent.href) = Len(MANAGEDAREAS) + 4
                /\ startswith(events[i].linkContent.href, MANAGEDAREAS)
                /\ endswith(events[i].linkContent.href, <<"c", "s", "v">>)

\* the scan loop of a page with two links or more is through and the
\* detector has reported
C16_Witness ==
    /\ ScansDone
    /\ Len(Top.htmlLinks) >= 2
    /\ \E i \in 1..Len(events) : IsAreaManagerScan(events[i]) /\ events[i].found

\* ------------------------------------------------------------------ C17

\* C17: the traversal is depth first and pre-order.  The scanner calls and
\* child requests of a run are, in their order, the beginning of this
\* sequence, and the whole of it when the run completes: for the root page
\* and then for every page requested, each link scanner once on each
\* extracted link, all of them before the first child request of that page;
\* then, for each link that is followed, its request and everything
\* below it before the request of the next link of the same page.
C17_DepthFirstPreOrder ==
    /\ IsPrefix(StepsOf(events), ExpectedSteps)
    /\ pc \in {"main40", "done"} => StepsOf(events) = ExpectedSteps

\* a run has completed on a site where a page below the root has links of
\* its own that were scanned and followed, and the root has a link after it
C17_Witness ==
    /\ pc = "done"
    /\ \E i, j, k \in 1..Len(events) :
         /\ i < j /\ j < k
         /\ IsChildFetch(events[i]) /\ events[i].linkDepth = 2
         /\ IsChildFetch(events[j]) /\ events[j].linkDepth = 3
         /\ IsChildFetch(events[k]) /\ events[k].linkDepth = 2

\* ------------------------------------------------------------------ C18

\* C18: the locator that mergeParentAndRelativeUrl builds for a link is the
\* locator the recursion loop computes for the same page and link (the
\* page's locator trimmed, the href percent-escaped, the two joined by
\* urljoin): every call of the File Processor gets, for the link it is made
\* for, the locator the crawl would descend into.
C18_MergeEqualsChildUrl ==
    \A i \in 1..Len(events) :
      (IsSpeedLimitsScan(events[i]) /\ events[i].found) =>
        /\ mergeParentAndRelativeUrl(events[i].parentUrl,
                                     parseHref(events[i].linkContent))
             = childUrl(events[i].parentUrl, events[i].linkContent)
        /\ i < Len(events) =>
             events[i + 1].mergedUrl
               = childUrl(events[i].parentUrl, events[i].linkContent)

\* ------------------------------------------------------------------ C19

\* C19: every processContent call has its page's depth: the root page 1, a
\* page reached by following k links k + 1 (the k-th call on the stack is
\* k - 1 links below the root); every scanner call and every child request
\* carries the depth of the call it is made in, or one more for the page
\* requested; and the output root and the run's instant go down every level
\* unchanged and reach the scanners and the File Processor as main gave them.
C19_DepthAndContextPassedDown ==
    /\ [](/\ \A k \in 1..Len(stack) :
               /\ stack[k].linkDepth = k
               /\ stack[k].stateOutputDir = stateOutputDir
               /\ stack[k].currTimestamp = currTimestamp
          /\ \A i \in 1..Len(events) :
               /\ events[i].type = "scan" =>
                    /\ events[i].parentLinkDepth >= 1
                    /\ events[i].currTimestamp = currTimestamp
               /\ events[i].type = "call" =>
                    /\ events[i].outputDir[1] = stateOutputDir
                    /\ events[i].outputDir[3] = currTimestamp.s
               /\ IsRootFetch(events[i]) => events[i].linkDepth = 1)
    /\ [][\A i \in (Len(events) + 1)..Len(events') :
            /\ events'[i].type = "scan" =>
                 events'[i].parentLinkDepth = Len(stack)
            /\ IsChildFetch(events'[i]) =>
                 events'[i].linkDepth = Len(stack) + 1]_vars

\* a scanner is called on a link of a page that was reached by two links
C19_Witness ==
    /\ Len(stack) = 3
    /\ \E i \in 1..Len(events) :
         events[i].type = "scan" /\ events[i].parentLinkDepth = 3

\* ------------------------------------------------------------------ C20

\* every anchor of every page of the site has an href
AnchorsParsable ==
    \A url \in DOMAIN site.pages : ~getHtmlLinksExits(site.pages[url])

\* C20: when the gate has let the run through, on a site without a cycle
\* and with an href in every anchor, the traversal ends and the run writes
\* its instant to the archive, unless a child request fails; and a run that
\* has ended this way has requested the root and then every page once for
\* each path of links that leads to it, in pre-order, and the archive holds
\* the file named after the run's instant.
C20_AcyclicTraversalTerminates ==
    /\ [](pc = "done" =>
            /\ gate = "True"
            /\ FetchedUrls = ExpectedFetches
            /\ Has("write")
            /\ TimestampFileName(currTimestamp) \in archive)
    /\ (gate = "True" /\ pc = "crawl" /\ ~CyclicSite /\ AnchorsParsable)
         ~> (pc = "done" \/ FailedChildFetch)

\* a run on a site without a cycle has ended with its instant written, all
\* requests having succeeded, one page having been requested twice, by two
\* paths
C20_Witness ==
    /\ pc = "done"
    /\ ~CyclicSite
    /\ ~FailedChildFetch
    /\ HasRefetch
    /\ TimestampFileName(currTimestamp) \in archive

====
